---------------------------- MODULE Spec2Model ----------------------------
(***************************************************************************)
(* Model of protobuf_distutils: ProtocCommandBase (protoc_command_base.py)  *)
(* and generate_py_protobufs (generate_py_protobufs.py).                    *)
(*                                                                         *)
(* A Python str is a sequence of one-character strings, so that prefix      *)
(* tests, partition and normalisation work on characters as the code does.  *)
(* A file's base name ("foo.proto") is kept as one token: it holds no path  *)
(* separator, so no search for "<root>/" can match inside it.  A flag       *)
(* prefix ("--proto_path=") and an executable's path are one token too.     *)
(*                                                                         *)
(* Library calls are modelled by what they do on a POSIX system:            *)
(* os.path.normpath, os.path.join, os.path.isdir/exists, glob.glob without  *)
(* recursive=True, distutils.spawn.spawn and find_executable.  The order in *)
(* which glob lists a directory is arbitrary; one order is fixed here and   *)
(* no property below depends on it.                                         *)
(***************************************************************************)
EXTENDS Integers, Sequences, FiniteSets

VARIABLES
    pc,                 \* position in the command's lifecycle
    source_dir,         \* self.source_dir
    output_dir,         \* self.output_dir
    proto_root_path,    \* self.proto_root_path
    include_dirs,       \* self.include_dirs
    proto_paths,        \* self.proto_paths
    extra_proto_paths,  \* self.extra_proto_paths
    proto_files,        \* self.proto_files
    recurse,            \* self.recurse
    protoc,             \* self.protoc
    env_PROTOC,         \* the process environment's PROTOC value
    path_protoc,        \* what find_executable('protoc') finds on PATH
    given,              \* the options as the user set them (history)
    error,              \* the exception the last operation raised, or "none"
    last_run,           \* the last run_protoc call: argument list, outcome
    runs                \* number of run() calls made

vars == <<pc, source_dir, output_dir, proto_root_path, include_dirs,
          proto_paths, extra_proto_paths, proto_files, recurse, protoc,
          env_PROTOC, path_protoc, given, error, last_run, runs>>

---------------------------------------------------------------------------
(* Python values *)

\* None, for a str-valued attribute
None == <<"None">>
\* None, for a list-valued attribute
NoneList == <<None>>

sep == "/"

---------------------------------------------------------------------------
(* str operations *)

\* str.startswith
startswith(s, p) == Len(p) <= Len(s) /\ SubSeq(s, 1, Len(p)) = p

\* index of the first occurrence of pat in s, 0 when there is none (str.find + 1)
find(s, pat) ==
    LET hits == {i \in 1..(Len(s) - Len(pat) + 1) :
                    SubSeq(s, i, i + Len(pat) - 1) = pat}
    IN IF hits = {} THEN 0 ELSE CHOOSE i \in hits : \A j \in hits : i <= j

\* str.partition(pat)[-1]: what follows the first occurrence, '' when none
partition_last(s, pat) ==
    LET i == find(s, pat)
    IN IF i = 0 THEN <<>> ELSE SubSeq(s, i + Len(pat), Len(s))

\* str.split('/')
RECURSIVE split(_, _)
split(s, cur) ==
    IF s = <<>> THEN <<cur>>
    ELSE IF Head(s) = sep THEN <<cur>> \o split(Tail(s), <<>>)
    ELSE split(Tail(s), Append(cur, Head(s)))

\* '/'.join(comps)
RECURSIVE join(_)
join(comps) ==
    IF comps = <<>> THEN <<>>
    ELSE IF Len(comps) = 1 THEN comps[1]
    ELSE comps[1] \o <<sep>> \o join(Tail(comps))

\* the component loop of posixpath.normpath
RECURSIVE norm_comps(_, _, _)
norm_comps(comps, new_comps, initial_slashes) ==
    IF comps = <<>> THEN new_comps
    ELSE LET comp == Head(comps)
             n == Len(new_comps)
         IN IF comp = <<>> \/ comp = <<".">>
            THEN norm_comps(Tail(comps), new_comps, initial_slashes)
            ELSE IF \/ comp # <<".", ".">>
                    \/ (initial_slashes = 0 /\ n = 0)
                    \/ (n > 0 /\ new_comps[n] = <<".", ".">>)
            THEN norm_comps(Tail(comps), Append(new_comps, comp), initial_slashes)
            ELSE IF n > 0
            THEN norm_comps(Tail(comps), SubSeq(new_comps, 1, n - 1), initial_slashes)
            ELSE norm_comps(Tail(comps), new_comps, initial_slashes)

\* os.path.normpath (posixpath)
normpath(path) ==
    IF path = <<>> THEN <<".">>
    ELSE LET initial_slashes ==
                 IF ~startswith(path, <<sep>>) THEN 0
                 ELSE IF startswith(path, <<sep, sep>>)
                         /\ ~startswith(path, <<sep, sep, sep>>) THEN 2
                 ELSE 1
             body == join(norm_comps(split(path, <<>>), <<>>, initial_slashes))
             res == [i \in 1..initial_slashes |-> sep] \o body
         IN IF res = <<>> THEN <<".">> ELSE res

\* list concatenation a + b
concat(a, b) == a \o b

---------------------------------------------------------------------------
(* ProtocCommandBase.compute_proto_root_path *)

\* the body of the loop: a candidate the current root starts with replaces it
root_step(root, root_candidate) ==
    LET c == normpath(root_candidate)
    IN IF startswith(root, c) THEN c ELSE root

\* a plausible slip: the test is made against the source directory
root_step_vs_source(src, root, root_candidate) ==
    LET c == normpath(root_candidate)
    IN IF startswith(normpath(src), c) THEN c ELSE root

RECURSIVE root_loop(_, _)
root_loop(root, cands) ==
    IF cands = <<>> THEN root
    ELSE root_loop(root_step(root, Head(cands)), Tail(cands))

RECURSIVE root_loop_vs_source(_, _, _)
root_loop_vs_source(src, root, cands) ==
    IF cands = <<>> THEN root
    ELSE root_loop_vs_source(src, root_step_vs_source(src, root, Head(cands)),
                             Tail(cands))

compute_proto_root_path_last_match(src, pp, extra) ==
    root_loop_vs_source(src, normpath(src), concat(pp, extra))

compute_proto_root_path(src, pp, extra) ==
    root_loop(normpath(src), concat(pp, extra))

---------------------------------------------------------------------------
(* The file system the command runs on.  Paths on disk are written         *)
(* normalised and relative to the working directory, which holds no        *)
(* symbolic links, so a spelling names the entry its normpath names.        *)

P_dot   == <<".">>
P_a     == <<"a">>
P_ab    == <<"a", "/", "b">>
P_abc   == <<"a", "/", "b", "/", "c">>
P_abcd  == <<"a", "/", "b", "/", "c", "/", "d">>
P_abx   == <<"a", "/", "b", "c">>
P_x     == <<"x">>
P_gen   == <<"g", "e", "n">>

DiskDirs == {P_dot, P_a, P_ab, P_abc, P_abcd, P_abx, P_x, P_gen}

\* base names carrying the .proto extension
ProtoNames == {<<"foo.proto">>}

DiskFiles ==
    { d \o <<sep>> \o n : d \in {P_a, P_ab, P_abc, P_abcd, P_abx}, n \in ProtoNames }
    \cup { P_ab \o <<sep, "notes.txt">> }

\* position of the last separator of p, 0 when it has none
last_sep(p) ==
    LET at == {i \in 1..Len(p) : p[i] = sep}
    IN IF at = {} THEN 0 ELSE CHOOSE i \in at : \A j \in at : j <= i

\* os.path.basename
basename(p) == SubSeq(p, last_sep(p) + 1, Len(p))

\* the directory holding the normalised disk path p
parent(p) == IF last_sep(p) = 0 THEN P_dot ELSE SubSeq(p, 1, last_sep(p) - 1)

\* os.path.isdir
isdir(p) == p # <<>> /\ normpath(p) \in DiskDirs

\* os.path.exists
exists(p) == p # <<>> /\ normpath(p) \in (DiskDirs \cup DiskFiles)

\* os.path.join(a, b) for a relative b
path_join(a, b) ==
    IF a = <<>> THEN b
    ELSE IF a[Len(a)] = sep THEN a \o b
    ELSE a \o <<sep>> \o b

---------------------------------------------------------------------------
(* glob.glob(pattern) without recursive=True *)

STAR_PROTO == <<"*.proto">>
STAR_STAR  == <<"**">>

\* the head of os.path.split: up to the last separator, trailing separators
\* stripped unless it is all separators
RECURSIVE rstrip_sep(_)
rstrip_sep(h) ==
    IF h = <<>> \/ h[Len(h)] # sep THEN h
    ELSE rstrip_sep(SubSeq(h, 1, Len(h) - 1))

split_head(p) ==
    LET h == SubSeq(p, 1, last_sep(p))
    IN IF rstrip_sep(h) = <<>> THEN h ELSE rstrip_sep(h)

\* fnmatch of a directory entry's name against the two patterns in use;
\* without recursive=True '**' is an ordinary '*' and matches one name
fnmatch(name, pat) ==
    IF pat = STAR_PROTO THEN name \in ProtoNames
    ELSE pat = STAR_STAR /\ name # <<>> /\ name[1] # "."

\* os.listdir(dirname): the names directly inside it
listdir(dirname) ==
    IF ~isdir(dirname) THEN {}
    ELSE { basename(e) : e \in { q \in (DiskDirs \cup DiskFiles) :
                                    q # P_dot /\ parent(q) = normpath(dirname) } }

\* glob._glob1
glob1(dirname, pat) ==
    { path_join(dirname, n) : n \in { m \in listdir(dirname) : fnmatch(m, pat) } }

\* glob.glob for a pattern <dir>/*.proto or <dir>/**/*.proto
glob(pattern) ==
    LET dirname == split_head(pattern)
        base    == basename(pattern)
    IN IF basename(dirname) = STAR_STAR
       THEN UNION { glob1(d, base) : d \in glob1(split_head(dirname), STAR_STAR) }
       ELSE glob1(dirname, base)

\* a list holding the members of a finite set (directory order is arbitrary)
RECURSIVE as_list(_)
as_list(S) ==
    IF S = {} THEN <<>>
    ELSE LET x == CHOOSE y \in S : TRUE IN <<x>> \o as_list(S \ {x})

---------------------------------------------------------------------------
(* ProtocCommandBase.find_proto_files *)

\* the paths globbed under source_dir, before they are made relative
globbed_files(src, rec) ==
    LET files == as_list(glob(path_join(src, STAR_PROTO)))
    IN IF rec
       THEN files \o as_list(glob(path_join(path_join(src, STAR_STAR), STAR_PROTO)))
       ELSE files

\* f.partition(self.proto_root_path + os.path.sep)[-1]
relative_name(f, root) == partition_last(f, root \o <<sep>>)

RECURSIVE relative_names(_, _)
relative_names(files, root) ==
    IF files = <<>> THEN <<>>
    ELSE <<relative_name(Head(files), root)>> \o relative_names(Tail(files), root)

find_proto_files(src, rec, root) == relative_names(globbed_files(src, rec), root)

---------------------------------------------------------------------------
(* ProtocCommandBase.ensure_proto_path_list *)

EQ == <<"=">>

\* a plausible slip: a virtual=real pair is taken on trust
invalid_entry_plain_only(proto_path) ==
    find(proto_path, EQ) = 0 /\ ~isdir(proto_path)

\* an entry is invalid when it is a plain path that is no directory, or a
\* virtual=real pair whose real part does not exist
invalid_entry(proto_path) ==
    IF find(proto_path, EQ) = 0
    THEN ~isdir(proto_path)
    ELSE ~exists(partition_last(proto_path, EQ))

\* invalid_paths of ensure_proto_path_list, for a list or None
invalid_paths(value) ==
    IF value = NoneList THEN {}
    ELSE { value[i] : i \in { j \in 1..Len(value) : invalid_entry(value[j]) } }

---------------------------------------------------------------------------
(* Executables and the environment *)

EXE_opt     == <<"/opt/bin/protoc">>
EXE_env     == <<"/env/bin/protoc">>
EXE_path    == <<"/usr/bin/protoc">>
EXE_missing == <<"/missing/protoc">>

\* the files a process can be started from
Executables == {EXE_opt, EXE_env, EXE_path}

\* exit statuses the compiler may end with
ExitCodes == {0, 2}

\* os.getenv('PROTOC')
getenv_PROTOC == env_PROTOC

\* distutils.spawn.find_executable('protoc')
find_executable_protoc == path_protoc

---------------------------------------------------------------------------
(* The command object *)

\* ProtocCommandBase.initialize_options, then generate_py_protobufs'
InitObject ==
    /\ pc = "initialized"
    /\ source_dir = None
    /\ output_dir = P_dot
    /\ proto_root_path = None
    /\ include_dirs = NoneList
    /\ proto_paths = <<>>
    /\ extra_proto_paths = <<>>
    /\ proto_files = NoneList
    /\ recurse = "None"
    /\ protoc = None
    /\ env_PROTOC = None
    /\ path_protoc = None
    /\ given = [set |-> FALSE]
    /\ error = "none"
    /\ last_run = [made |-> FALSE]
    /\ runs = 0

\* the options a setup script or the command line sets on the command, and
\* the environment the build is started in
configure(o) ==
    /\ pc' = "configured"
    /\ source_dir' = o.source_dir
    /\ output_dir' = o.output_dir
    /\ proto_root_path' = o.proto_root_path
    /\ include_dirs' = o.include_dirs
    /\ proto_paths' = o.proto_paths
    /\ extra_proto_paths' = o.extra_proto_paths
    /\ recurse' = o.recurse
    /\ protoc' = o.protoc
    /\ env_PROTOC' = o.env_PROTOC
    /\ path_protoc' = o.path_protoc
    /\ given' = [set |-> TRUE, o |-> o]
    /\ UNCHANGED <<proto_files, error, last_run, runs>>

\* a plausible slip: the extra search paths are validated but never added
append_extra_proto_paths_dropped(pp, extra) == pp

\* generate_py_protobufs.finalize_options lines 65-67: the extra search paths
\* join proto_paths
append_extra_proto_paths(pp, extra) == concat(pp, extra)

\* the source directory lies under the root, as line 99 tests it
source_under_root(src, root) == startswith(src, root)

\* The first step of finalize_options that raises, 0 when none does.
\* inc is include_dirs after set_undefined_options, pp the joined proto_paths,
\* root the root path in force.
finalize_failure(inc, pp, root) ==
    IF source_dir # None /\ ~isdir(source_dir) THEN 1
    ELSE IF ~isdir(output_dir) THEN 2
    ELSE IF invalid_paths(inc) # {} THEN 3
    ELSE IF invalid_paths(pp) # {} THEN 4
    ELSE IF invalid_paths(extra_proto_paths) # {} THEN 5
    ELSE IF source_dir = None /\ proto_root_path = None THEN 6
    ELSE IF ~isdir(root) THEN 7
    ELSE IF source_dir = None THEN 9
    ELSE IF ~source_under_root(source_dir, root) THEN 8
    ELSE 0

\* the exception each failing step raises: normpath(None) at step 6 and
\* None.startswith at step 9 are Python's own errors
finalize_error(step) ==
    IF step = 0 THEN "none"
    ELSE IF step = 6 THEN "TypeError"
    ELSE IF step = 9 THEN "AttributeError"
    ELSE "DistutilsOptionError"

\* generate_py_protobufs.finalize_options, ProtocCommandBase.finalize_options
\* included; build_ext_dirs is build_ext's include_dirs
finalize_options(build_ext_dirs) ==
    LET inc  == IF include_dirs = NoneList THEN build_ext_dirs ELSE include_dirs
        pp   == IF inc # NoneList THEN concat(inc, proto_paths) ELSE proto_paths
        rec  == IF recurse = "None" THEN "True" ELSE recurse
    IN \E root \in { IF proto_root_path = None /\ source_dir # None
                     THEN compute_proto_root_path(source_dir, pp, extra_proto_paths)
                     ELSE proto_root_path } :
       \E step \in { finalize_failure(inc, pp, root) } :
       /\ pc' = IF step = 0 THEN "finalized" ELSE "failed"
       /\ error' = finalize_error(step)
       /\ include_dirs' = inc
       /\ proto_paths' = IF step = 0 THEN append_extra_proto_paths(pp, extra_proto_paths)
                         ELSE IF step \in {1, 2, 3} THEN proto_paths
                         ELSE pp
       /\ proto_root_path' = IF step \in 1..6 THEN proto_root_path ELSE root
       /\ recurse' = IF step = 0 THEN rec ELSE recurse
       /\ proto_files' = IF step = 0
                         THEN find_proto_files(source_dir, rec = "True", root)
                         ELSE proto_files
       /\ protoc' = IF step = 0 /\ protoc = None THEN getenv_PROTOC ELSE protoc
       /\ UNCHANGED <<source_dir, output_dir, extra_proto_paths, env_PROTOC,
                      path_protoc, given, last_run, runs>>

---------------------------------------------------------------------------
(* ProtocCommandBase.run_protoc *)

FLAG_proto_path == <<"--proto_path=">>
FLAG_python_out == <<"--python_out=">>

\* the --proto_path flags: the root first, then every entry of proto_paths
proto_path_flags(root, pp) ==
    LET dirs == <<root>> \o pp
    IN [i \in 1..Len(dirs) |-> FLAG_proto_path \o dirs[i]]

\* a plausible slip: whatever PATH holds wins over the configured value
resolve_protoc_path_first(configured, found) ==
    IF found # None THEN found ELSE configured

\* the executable: the configured one, else the one found on PATH
resolve_protoc(configured, found) ==
    IF configured = None THEN found ELSE configured

\* distutils.spawn.spawn(cmd, search_path=0): the exception it ends with.
\* It joins cmd for the log before anything else, which fails on None.
spawn_raises(cmd, code) ==
    IF cmd[1] = None THEN "TypeError"
    ELSE IF cmd[1] \notin Executables THEN "DistutilsExecError"
    ELSE IF code # 0 THEN "DistutilsExecError"
    ELSE "none"

\* whether spawn started a process for cmd
spawn_started(cmd) == cmd[1] # None /\ cmd[1] \in Executables

\* a plausible slip: the flag directories are stored back into self.proto_paths
run_protoc_frame_rebinding ==
    /\ proto_paths' = <<proto_root_path>> \o proto_paths
    /\ UNCHANGED <<source_dir, output_dir, proto_root_path, include_dirs,
                   extra_proto_paths, proto_files, recurse>>

\* what run_protoc leaves alone: it assigns self.protoc and nothing else
run_protoc_frame ==
    UNCHANGED <<source_dir, output_dir, proto_root_path, include_dirs,
                proto_paths, extra_proto_paths, proto_files, recurse>>

run_protoc(args, code) ==
    \E exe \in { resolve_protoc(protoc, find_executable_protoc) } :
    \E cmd \in { <<exe>> \o proto_path_flags(proto_root_path, proto_paths)
                        \o args \o proto_files } :
    \E raised \in { spawn_raises(cmd, code) } :
       /\ protoc' = exe
       /\ last_run' = [made |-> TRUE, argv |-> cmd,
                       started |-> spawn_started(cmd),
                       status |-> IF spawn_started(cmd) THEN code ELSE -1,
                       raised |-> raised]
       /\ error' = raised
       /\ run_protoc_frame

\* generate_py_protobufs.run
run(code) == run_protoc(<< FLAG_python_out \o output_dir >>, code)

---------------------------------------------------------------------------
(* Bounds and input universes *)

\* most entries over include_dirs, proto_paths and extra_proto_paths together
MaxCands == 2
\* most run() calls on one command object
MaxRuns == 2

P_a_sl   == <<"a", "/">>
P_dot_a  == <<".", "/", "a">>
P_a_sl_sl_b == <<"a", "/", "/", "b">>
P_abc_up == <<"a", "/", "b", "/", "c", "/", ".", ".">>
P_abs_a  == <<"/", "a">>
P_nope   == <<"n", "o", "p", "e">>
V_x      == <<"v", "=", "x">>
V_nope   == <<"v", "=", "n", "o", "p", "e">>

\* spellings given to the root computation on its own
PathSpellings ==
    {<<>>, P_dot, P_a, P_a_sl, P_dot_a, P_ab, P_a_sl_sl_b, P_abx, P_abc,
     P_abc_up, P_x, P_abs_a}

\* source_dir values given to the command
SourceDirs ==
    {None, P_a, P_a_sl, P_dot_a, P_ab, P_a_sl_sl_b, P_abx, P_abc, P_nope}

\* search path entries given to the command
PathEntries == {P_a, P_ab, P_nope, V_x, V_nope}

\* explicit proto_root_path values given to the command
RootOverrides == {None, P_ab}

\* build_ext's include_dirs, inherited when the command has none
BuildExtIncludeDirs == {NoneList, <<P_x>>}

\* the lists over S of length at most n
Lists(S, n) == UNION { [1..k -> S] : k \in 0..n }

\* the ways to cut a list into three consecutive parts
Cuts(c) ==
    { << SubSeq(c, 1, x[1]), SubSeq(c, x[1] + 1, x[2]), SubSeq(c, x[2] + 1, Len(c)) >> :
        x \in { y \in (0..Len(c)) \X (0..Len(c)) : y[1] <= y[2] } }

\* include_dirs, proto_paths, extra_proto_paths holding at most n entries
\* together; include_dirs may also be left None
SearchPaths(n) ==
    LET cuts == UNION { Cuts(c) : c \in Lists(PathEntries, n) }
    IN cuts \cup { <<NoneList, t[2], t[3]>> : t \in { u \in cuts : u[1] = <<>> } }

\* configurations that vary the paths, with the compiler found on PATH
PathConfigs ==
    { [source_dir |-> s, include_dirs |-> t[1], proto_paths |-> t[2],
       extra_proto_paths |-> t[3], proto_root_path |-> r, recurse |-> rec,
       output_dir |-> P_gen, protoc |-> None,
       env_PROTOC |-> None, path_protoc |-> EXE_path] :
        s \in SourceDirs, t \in SearchPaths(MaxCands), r \in RootOverrides,
        rec \in {"None", "False"} }

\* configurations that vary how the compiler is named, and whether
\* output_dir and an explicit proto_root_path exist, on fixed search paths
ExecConfigs ==
    { [source_dir |-> P_abc, include_dirs |-> <<>>, proto_paths |-> <<P_ab>>,
       extra_proto_paths |-> <<>>, proto_root_path |-> r, recurse |-> "True",
       output_dir |-> o, protoc |-> p,
       env_PROTOC |-> e, path_protoc |-> f] :
        r \in {None, P_nope}, o \in {P_dot, P_nope},
        p \in {None, EXE_opt, EXE_missing},
        e \in {None, EXE_env, EXE_missing}, f \in {None, EXE_path} }

---------------------------------------------------------------------------
(* The command's lifecycle: options set, finalize_options, run *)

Init == InitObject

SetOptions ==
    /\ pc = "initialized"
    /\ \E o \in PathConfigs \cup ExecConfigs : configure(o)

FinalizeOptions ==
    /\ pc = "configured"
    /\ \E build_ext_dirs \in BuildExtIncludeDirs : finalize_options(build_ext_dirs)

Run ==
    /\ pc = "finalized"
    /\ runs < MaxRuns
    /\ runs' = runs + 1
    /\ \E code \in ExitCodes : run(code)
    /\ UNCHANGED <<pc, env_PROTOC, path_protoc, given>>

Next == SetOptions \/ FinalizeOptions \/ Run

Spec == Init /\ [][Next]_vars

---------------------------------------------------------------------------
(* compute_proto_root_path called on its own *)

InitRoot ==
    /\ pc = "configured"
    /\ source_dir \in PathSpellings
    /\ \E c \in Lists(PathSpellings, MaxCands) : \E t \in Cuts(c) :
           /\ t[1] = <<>>
           /\ proto_paths = t[2]
           /\ extra_proto_paths = t[3]
    /\ output_dir = P_dot
    /\ proto_root_path = None
    /\ include_dirs = NoneList
    /\ proto_files = NoneList
    /\ recurse = "None"
    /\ protoc = None
    /\ env_PROTOC = None
    /\ path_protoc = None
    /\ given = [set |-> FALSE]
    /\ error = "none"
    /\ last_run = [made |-> FALSE]
    /\ runs = 0

ComputeRoot ==
    /\ pc = "configured"
    /\ pc' = "computed"
    /\ proto_root_path' =
           compute_proto_root_path(source_dir, proto_paths, extra_proto_paths)
    /\ UNCHANGED <<source_dir, output_dir, include_dirs, proto_paths,
                   extra_proto_paths, proto_files, recurse, protoc, env_PROTOC,
                   path_protoc, given, error, last_run, runs>>

NextRoot == ComputeRoot

SpecRoot == InitRoot /\ [][NextRoot]_vars

---------------------------------------------------------------------------
(* Properties *)

\* the candidates of the root computation, normalised
NormCandidates(pp, extra) ==
    LET c == concat(pp, extra) IN { normpath(c[i]) : i \in 1..Len(c) }

\* the normalised candidates that are a prefix of the normalised source
MatchingCandidates(src, pp, extra) ==
    { c \in NormCandidates(pp, extra) : startswith(normpath(src), c) }

\* C1: compute_proto_root_path returns the shortest normalised candidate that
\* is a string-prefix of the normalised source directory, the normalised
\* source directory itself when no candidate is a prefix of it, and in every
\* case a prefix of the normalised source directory.
C1_RootIsShortestMatchingCandidate ==
    pc = "computed" =>
        LET S == normpath(source_dir)
            M == MatchingCandidates(source_dir, proto_paths, extra_proto_paths)
        IN /\ startswith(S, proto_root_path)
           /\ (M = {} => proto_root_path = S)
           /\ (M # {} => /\ proto_root_path \in M
                         /\ \A c \in M : Len(proto_root_path) <= Len(c))

\* two candidates match, and the shorter one comes first
C1_Witness ==
    /\ pc = "computed"
    /\ source_dir = P_abc
    /\ proto_paths = <<P_a>>
    /\ extra_proto_paths = <<P_ab>>
    /\ proto_root_path = P_a

\* the paths find_proto_files globbed in the current state
Discovered == globbed_files(source_dir, recurse = "True")

\* C2: after finalize_options accepted the configuration, every discovered
\* path f is handed on as the name r with proto_root_path + separator + r = f,
\* so r is never empty and keeps every directory segment below the root.
C2_RelativeNameRestoresPath ==
    pc = "finalized" =>
        /\ Len(proto_files) = Len(Discovered)
        /\ \A i \in 1..Len(proto_files) :
              /\ proto_files[i] # <<>>
              /\ proto_root_path \o <<sep>> \o proto_files[i] = Discovered[i]

\* the .proto files on disk at any depth beneath directory d
ProtoFilesBeneath(d) ==
    { f \in DiskFiles : /\ basename(f) \in ProtoNames
                        /\ \/ normpath(d) = P_dot
                           \/ startswith(f, normpath(d) \o <<sep>>) }

\* C3: with recurse enabled, find_proto_files returns every .proto file at
\* any depth beneath source_dir, one name for each.
C3_RecurseFindsEveryDepth ==
    (pc = "finalized" /\ recurse = "True") =>
        /\ Len(proto_files) = Len(Discovered)
        /\ \A f \in ProtoFilesBeneath(source_dir) :
              \E i \in 1..Len(proto_files) : normpath(Discovered[i]) = f

\* C4: whenever finalize_options completes without error, source_dir equals
\* proto_root_path or begins with proto_root_path followed by a separator.
C4_SourceNestedUnderRoot ==
    pc = "finalized" =>
        \/ source_dir = proto_root_path
        \/ startswith(source_dir, proto_root_path \o <<sep>>)

\* finalize_options has run on the options the user gave
Finalized == pc \in {"finalized", "failed"}

\* every option other than source_dir is one finalize_options accepts
OtherOptionsValid ==
    /\ isdir(output_dir)
    /\ invalid_paths(include_dirs) = {}
    /\ invalid_paths(given.o.proto_paths) = {}
    /\ invalid_paths(given.o.extra_proto_paths) = {}

\* the search path entries in force: include_dirs, proto_paths, extra_proto_paths
AllEntries ==
    concat(IF include_dirs = NoneList THEN <<>> ELSE include_dirs,
           concat(given.o.proto_paths, given.o.extra_proto_paths))

\* C5: for an existing source_dir in any spelling the directory check accepts,
\* with no root override and no candidate that is a prefix of it,
\* finalize_options succeeds with the source directory as its own root and
\* every discovered file is named by its path relative to source_dir.
C5_SourceIsItsOwnRoot ==
    ( /\ Finalized
      /\ source_dir # None
      /\ isdir(source_dir)
      /\ given.o.proto_root_path = None
      /\ OtherOptionsValid
      /\ MatchingCandidates(source_dir, AllEntries, <<>>) = {} )
    => /\ pc = "finalized"
       /\ normpath(proto_root_path) = normpath(source_dir)
       /\ Len(proto_files) = Len(Discovered)
       /\ \A i \in 1..Len(proto_files) :
             /\ proto_files[i] # <<>>
             /\ normpath(path_join(source_dir, proto_files[i]))
                    = normpath(Discovered[i])

\* C6: the argument list run_protoc executes is the compiler executable, the
\* --proto_path flag of the root, one --proto_path flag for each entry of
\* include_dirs, proto_paths and extra_proto_paths in that order, the flag
\* --python_out=<output_dir>, then the root-relative file list.
C6_ArgumentList ==
    last_run.made =>
        last_run.argv =
            <<protoc>>
            \o <<FLAG_proto_path \o proto_root_path>>
            \o [i \in 1..Len(AllEntries) |-> FLAG_proto_path \o AllEntries[i]]
            \o <<FLAG_python_out \o output_dir>>
            \o proto_files

\* a run whose three path lists each hold an entry
C6_Witness ==
    /\ last_run.made
    /\ last_run.started
    /\ include_dirs = <<P_x>>
    /\ given.o.proto_paths = <<P_ab>>
    /\ given.o.extra_proto_paths = <<V_x>>
    /\ source_dir = P_abc
    /\ Len(proto_files) = 2

\* the path an entry names does not exist: the entry itself, or the real
\* part of a virtual=real entry
NamesMissingPath(entry) ==
    IF \E i \in 1..Len(entry) : entry[i] = "="
    THEN ~exists(partition_last(entry, EQ))
    ELSE ~exists(entry)

\* C7: if any entry of include_dirs, proto_paths or extra_proto_paths names a
\* path that does not exist, finalize_options fails with DistutilsOptionError
\* and no compiler process is spawned in that execution.
C7_MissingEntryRejected ==
    (given.set /\ \E i \in 1..Len(AllEntries) : NamesMissingPath(AllEntries[i]))
    => /\ ~last_run.made
       /\ Finalized => (pc = "failed" /\ error = "DistutilsOptionError")

\* a virtual=real entry with a missing real part, all else valid, is rejected
C7_Witness ==
    /\ pc = "failed"
    /\ error = "DistutilsOptionError"
    /\ source_dir = P_abc
    /\ given.o.proto_root_path = None
    /\ given.o.proto_paths = <<P_ab>>
    /\ given.o.extra_proto_paths = <<V_nope>>

\* C8: every run_protoc call in which the compiler cannot be found (no protoc
\* option, no PROTOC value, no protoc on the search path) or exits with a
\* non-zero status ends in DistutilsExecError.
C8_FailureIsExecError ==
    ( /\ last_run.made
      /\ \/ (given.o.protoc = None /\ env_PROTOC = None /\ path_protoc = None)
         \/ (last_run.started /\ last_run.status # 0) )
    => last_run.raised = "DistutilsExecError"

\* the executable the precedence rule names
ExpectedExecutable ==
    IF given.o.protoc # None THEN given.o.protoc
    ELSE IF env_PROTOC # None THEN env_PROTOC
    ELSE path_protoc

\* C9: the executable run_protoc spawns is the configured protoc option when
\* there is one, else the PROTOC environment value when there is one, else
\* the protoc found on the executable search path.
C9_ExecutablePrecedence ==
    last_run.made => /\ last_run.argv[1] = ExpectedExecutable
                     /\ protoc = ExpectedExecutable

\* a run with the option, the environment and the search path all naming a
\* different executable
C9_Witness ==
    /\ last_run.made
    /\ last_run.started
    /\ given.o.protoc = EXE_opt
    /\ env_PROTOC = EXE_env
    /\ path_protoc = EXE_path
    /\ last_run.argv[1] = EXE_opt

\* C10: once finalize_options has completed, no step changes proto_paths,
\* extra_proto_paths, source_dir, proto_root_path or proto_files, and a
\* further run builds the argument list the previous run built.
C10_FinalizedIsFrozen ==
    [][ pc = "finalized" =>
          /\ proto_paths' = proto_paths
          /\ extra_proto_paths' = extra_proto_paths
          /\ source_dir' = source_dir
          /\ proto_root_path' = proto_root_path
          /\ proto_files' = proto_files
          /\ (last_run.made => last_run'.argv = last_run.argv) ]_vars

\* a finalized command that has been run twice
C10_Witness ==
    /\ pc = "finalized"
    /\ runs >= 2
    /\ last_run.started
    /\ Len(proto_paths) >= 1

\* the lists that hold the entries of c in some order
Permutations(c) ==
    { [i \in 1..Len(c) |-> c[p[i]]] :
        p \in { q \in [1..Len(c) -> 1..Len(c)] :
                  \A i, j \in 1..Len(c) : q[i] = q[j] => i = j } }

\* C11: the root compute_proto_root_path returns does not depend on the order
\* of the candidates: every permutation of the candidate list, duplicates and
\* equally long matching candidates included, gives the same root.
C11_RootIndependentOfOrder ==
    pc = "computed" =>
        \A c \in Permutations(concat(proto_paths, extra_proto_paths)) :
            compute_proto_root_path(source_dir, c, <<>>) = proto_root_path

\* two candidates of different length match, the longer one first, and a
\* third spelling of the shorter one is as long as it after normalisation
C11_Witness ==
    /\ pc = "computed"
    /\ source_dir = P_abc
    /\ proto_paths = <<P_ab>>
    /\ extra_proto_paths = <<P_a_sl>>
    /\ proto_root_path = P_a

===========================================================================
